---- MODULE Spec2Model ----
(***************************************************************************)
(* Model of aws/resource_aws_config_delivery_channel.go: the Put (create / *)
(* update), Read and Delete handlers of the AWS Config delivery channel    *)
(* resource, run against a remote service whose answers are chosen         *)
(* nondeterministically.  Every remote call is one step of the model.      *)
(***************************************************************************)
EXTENDS Integers, Sequences, FiniteSets, TLC

VARIABLES d, d0, input, pc, op, err, ret, elapsed, lastWrite, lastDescribe,
          describeNames, putCalls, putInsufficient, putOk, finalAttempts,
          describeCalls, deleteCalls, deleteBlocked, readRet, remote, faithful,
          lifecycle, interleaved

vars == <<d, d0, input, pc, op, err, ret, elapsed, lastWrite, lastDescribe,
          describeNames, putCalls, putInsufficient, putOk, finalAttempts,
          describeCalls, deleteCalls, deleteBlocked, readRet, remote,
          faithful, lifecycle, interleaved>>

(***************************************************************************)
(* Bounds and program constants                                            *)
(***************************************************************************)
\* granularity of the model's clock, in seconds: a backoff wait of
\* resource.Retry lasts one or two steps
BackoffStep == 15

\* iamwaiter.PropagationTimeout (two minutes), in seconds
PropagationTimeout == 120

\* 30*time.Second, in seconds
DeleteTimeout == 30

Backoffs == {BackoffStep, 2 * BackoffStep}

(***************************************************************************)
(* Values                                                                  *)
(***************************************************************************)
\* a nil *string
NilStr == "<nil>"

Names == {"default", "other"}

\* awserr messages as sequences of words
RecorderRunningMsg == <<"there", "is", "a", "running", "configuration", "recorder">>

Messages == { <<>>,
              <<"failed">>,
              <<"failed", "because">> \o RecorderRunningMsg }

ErrCodeInsufficientDeliveryPolicy == "InsufficientDeliveryPolicyException"
ErrCodeNoSuchDeliveryChannel == "NoSuchDeliveryChannelException"
ErrCodeLastDeliveryChannelDeleteFailedException == "LastDeliveryChannelDeleteFailedException"

Codes == { ErrCodeInsufficientDeliveryPolicy,
           ErrCodeNoSuchDeliveryChannel,
           ErrCodeLastDeliveryChannelDeleteFailedException,
           "AccessDeniedException" }

\* a nil error
NoError == [kind |-> "nil", code |-> "", msg |-> <<>>]

\* an error that is not an awserr.Error
PlainError == [kind |-> "plain", code |-> "", msg |-> <<"connection", "reset">>]

\* *resource.TimeoutError with a nil LastError
TimeoutError == [kind |-> "timeout", code |-> "", msg |-> <<"timeout">>]

AwsErrors == [kind : {"aws"}, code : Codes, msg : Messages]

RemoteErrors == AwsErrors \cup {PlainError}

\* strings.Contains on word sequences
Contains(s, sub) ==
    \E i \in 0..(Len(s) - Len(sub)) : SubSeq(s, i + 1, i + Len(sub)) = sub

\* isAWSErr(err, code, message)
isAWSErr(e, code, message) ==
    e.kind = "aws" /\ e.code = code /\ Contains(e.msg, message)

\* isResourceTimeoutError(err)
isResourceTimeoutError(e) == e.kind = "timeout"

\* a returned error value; fmt.Errorf keeps the format and its arguments
NoRet == [fmt |-> "", cause |-> NoError, count |-> 0, id |-> "", channels |-> <<>>]

ErrorfCause(f, e) ==
    [fmt |-> f, cause |-> e, count |-> 0, id |-> "", channels |-> <<>>]

ErrorfChannels(f, n, id, chans) ==
    [fmt |-> f, cause |-> NoError, count |-> n, id |-> id, channels |-> chans]

(***************************************************************************)
(* schema.ResourceData and the wire objects                                *)
(***************************************************************************)
\* snapshot_delivery_properties: a list of at most one block (MaxItems: 1)
SnapshotBlocks == { <<>>,
                    <<[delivery_frequency |-> ""]>>,
                    <<[delivery_frequency |-> "One_Hour"]>> }

\* the resource data a handler can be called with; "" is a string
\* attribute's zero value
\* (at most one of the three optional strings is set, to keep the set small)
ResourceData ==
    { r \in [ id : Names \cup {""},
              name : Names,
              s3_bucket_name : {"bk1"},
              s3_key_prefix : {"", "pre"},
              s3_kms_key_arn : {"", "kms"},
              sns_topic_arn : {"", "sns"},
              snapshot_delivery_properties : SnapshotBlocks ] :
        Cardinality({ v \in {r.s3_key_prefix, r.s3_kms_key_arn, r.sns_topic_arn} :
                        v # "" }) <= 1 }

\* *configservice.ConfigSnapshotDeliveryProperties: <<>> is the nil pointer
WireSnapshots == { <<>>,
                   <<[DeliveryFrequency |-> NilStr]>>,
                   <<[DeliveryFrequency |-> "One_Hour"]>> }

\* the configservice.DeliveryChannel objects a describe call may return
\* (with the same restriction on the optional strings)
WireChannels ==
    { c \in [ Name : Names,
              S3BucketName : {"bk1", "bk2"},
              S3KeyPrefix : {NilStr, "pre"},
              S3KmsKeyArn : {NilStr, "kms"},
              SnsTopicARN : {NilStr, "sns"},
              ConfigSnapshotDeliveryProperties : WireSnapshots ] :
        Cardinality({ v \in {c.S3KeyPrefix, c.S3KmsKeyArn, c.SnsTopicARN} :
                        v # NilStr }) <= 1 }

\* the second element of a two-element answer
ExtraChannels ==
    { c \in WireChannels : /\ c.S3BucketName = "bk2"
                           /\ c.S3KmsKeyArn = NilStr
                           /\ c.SnsTopicARN = NilStr
                           /\ c.S3KeyPrefix = NilStr
                           /\ c.ConfigSnapshotDeliveryProperties # <<>> }

NoInput == [DeliveryChannel |-> <<>>, DeliveryChannelName |-> ""]

\* d.GetOk on a string attribute: set and not the zero value
GetOkStr(v) == v # ""

\* the input as it would be if the key prefix were never sent
PutInput_NoKeyPrefix(dd) ==
    [ DeliveryChannelName |-> "",
      DeliveryChannel |->
        <<[ Name |-> dd.name,
            S3BucketName |-> dd.s3_bucket_name,
            S3KeyPrefix |-> NilStr,
            S3KmsKeyArn |-> IF dd.s3_kms_key_arn # ""
                            THEN dd.s3_kms_key_arn ELSE NilStr,
            SnsTopicARN |-> IF dd.sns_topic_arn # ""
                            THEN dd.sns_topic_arn ELSE NilStr,
            ConfigSnapshotDeliveryProperties |->
                IF dd.snapshot_delivery_properties # <<>>
                THEN <<[DeliveryFrequency |->
                          dd.snapshot_delivery_properties[1].delivery_frequency]>>
                ELSE <<>> ]>> ]

\* lines 75-102: the PutDeliveryChannelInput built from the resource data
PutInput(dd) ==
    [ DeliveryChannelName |-> "",
      DeliveryChannel |->
        <<[ Name |-> dd.name,
            S3BucketName |-> dd.s3_bucket_name,
            S3KeyPrefix |-> IF GetOkStr(dd.s3_key_prefix)
                            THEN dd.s3_key_prefix ELSE NilStr,
            S3KmsKeyArn |-> IF GetOkStr(dd.s3_kms_key_arn)
                            THEN dd.s3_kms_key_arn ELSE NilStr,
            SnsTopicARN |-> IF GetOkStr(dd.sns_topic_arn)
                            THEN dd.sns_topic_arn ELSE NilStr,
            ConfigSnapshotDeliveryProperties |->
                IF dd.snapshot_delivery_properties # <<>>
                THEN <<[DeliveryFrequency |->
                          dd.snapshot_delivery_properties[1].delivery_frequency]>>
                ELSE <<>> ]>> ]

\* the input as it would be if the name attribute were used for the id
DeleteInput_ByName(dd) ==
    [DeliveryChannel |-> <<>>, DeliveryChannelName |-> dd.name]

\* lines 174-176: the DeleteDeliveryChannelInput
DeleteInput(dd) == [DeliveryChannel |-> <<>>, DeliveryChannelName |-> dd.id]

\* the input as it would be if the default name were always described
DescribeInput_FixedName(dd) == <<"default">>

\* lines 131-133: the DescribeDeliveryChannelsInput
DescribeInput(dd) == <<dd.id>>

\* d.Set of a *string: a nil pointer stores the zero value
SetStr(p) == IF p = NilStr THEN "" ELSE p

\* flattenConfigSnapshotDeliveryProperties
flattenConfigSnapshotDeliveryProperties(p) ==
    <<[delivery_frequency |-> SetStr(p.DeliveryFrequency)]>>

(***************************************************************************)
(* The remote service's answers                                            *)
(***************************************************************************)
\* PutDeliveryChannel and DeleteDeliveryChannel: nil or an error
WriteResponses == {NoError} \cup RemoteErrors

\* DescribeDeliveryChannels: an error, or a list of channels
DescribeResponses ==
    [err : RemoteErrors, channels : {<<>>}]
    \cup { [err |-> NoError, channels |-> <<>>] }
    \cup { [err |-> NoError, channels |-> <<c>>] : c \in WireChannels }
    \cup { [err |-> NoError, channels |-> <<c, e>>] :
              c \in WireChannels, e \in ExtraChannels }

NoDescribe == [err |-> NoError, channels |-> <<>>]

(***************************************************************************)
(* A remote service that keeps what it is sent: one channel per name, put  *)
(* replaces by name, describe returns the channel kept under the name.     *)
(* Its put and delete may fail with the error the handler waits for.       *)
(***************************************************************************)
\* no channel under any name
EmptyStore == [n \in Names |-> <<>>]

\* the channel kept under a name, <<>> if there is none
Kept(rem, name) == IF name \in Names THEN rem[name] ELSE <<>>

InsufficientPolicy ==
    [kind |-> "aws", code |-> ErrCodeInsufficientDeliveryPolicy, msg |-> <<>>]

RecorderRunning ==
    [kind |-> "aws", code |-> ErrCodeLastDeliveryChannelDeleteFailedException,
     msg |-> <<"failed", "because">> \o RecorderRunningMsg]

NoSuchChannel ==
    [kind |-> "aws", code |-> ErrCodeNoSuchDeliveryChannel, msg |-> <<>>]

\* the answers to PutDeliveryChannel
StorePutAnswers == {NoError, InsufficientPolicy}

\* the answers to DeleteDeliveryChannel for a name
StoreDeleteAnswers(rem, name) ==
    IF Kept(rem, name) # <<>>
    THEN {NoError, RecorderRunning}
    ELSE {NoSuchChannel}

\* the answers to DescribeDeliveryChannels for a list of one name: absence
\* is reported by the error or by an empty list
StoreDescribeAnswers(rem, names) ==
    IF Kept(rem, names[1]) # <<>>
    THEN { [err |-> NoError, channels |-> Kept(rem, names[1])] }
    ELSE { [err |-> NoSuchChannel, channels |-> <<>>],
           [err |-> NoError, channels |-> <<>>] }

\* what the service may keep before the first handler runs: under each name
\* nothing, or a channel put there earlier
InitialStores ==
    { st \in [Names -> {<<>>} \cup { <<c>> : c \in ExtraChannels }] :
        \A n \in Names : st[n] # <<>> => st[n][1].Name = n }

\* the store after a put that was answered with resp
StoreAfterPut(rem, in, resp) ==
    IF resp = NoError
    THEN [rem EXCEPT ![in.DeliveryChannel[1].Name] = in.DeliveryChannel]
    ELSE rem

\* the store after a delete that was answered with resp
StoreAfterDelete(rem, in, resp) ==
    IF resp = NoError /\ in.DeliveryChannelName \in Names
    THEN [rem EXCEPT ![in.DeliveryChannelName] = <<>>]
    ELSE rem

(***************************************************************************)
(* resourceAwsConfigDeliveryChannelRead                                    *)
(***************************************************************************)
\* the handling of a describe error as it would be if every service error
\* counted as "gone"
ReadError_SwallowsAll(dd, e) ==
    IF e.kind = "aws"
    THEN [d |-> [dd EXCEPT !.id = ""], ret |-> NoRet]
    ELSE [d |-> dd, ret |-> ErrorfCause("Getting Delivery Channel failed: %s", e)]

\* the handling of a describe error as it would be if the not-found error
\* left the id in place
ReadError_KeepsId(dd, e) ==
    IF e.kind = "aws" /\ e.code = ErrCodeNoSuchDeliveryChannel
    THEN [d |-> dd, ret |-> NoRet]
    ELSE [d |-> dd, ret |-> ErrorfCause("Getting Delivery Channel failed: %s", e)]

\* lines 135-144: a describe error
ReadError(dd, e) ==
    IF e.kind = "aws" /\ e.code = ErrCodeNoSuchDeliveryChannel
    THEN [d |-> [dd EXCEPT !.id = ""], ret |-> NoRet]
    ELSE [d |-> dd, ret |-> ErrorfCause("Getting Delivery Channel failed: %s", e)]

\* lines 157-169: the attributes set from the one channel returned
ReadChannel(dd, channel) ==
    [dd EXCEPT !.name = SetStr(channel.Name),
               !.s3_bucket_name = SetStr(channel.S3BucketName),
               !.s3_key_prefix = SetStr(channel.S3KeyPrefix),
               !.s3_kms_key_arn = SetStr(channel.S3KmsKeyArn),
               !.sns_topic_arn = SetStr(channel.SnsTopicARN),
               !.snapshot_delivery_properties =
                   IF channel.ConfigSnapshotDeliveryProperties # <<>>
                   THEN flattenConfigSnapshotDeliveryProperties(
                            channel.ConfigSnapshotDeliveryProperties[1])
                   ELSE @]

\* the handling of the channels as it would be if an empty list were an error
ReadChannels_EmptyIsError(dd, channels) ==
    IF Len(channels) # 1
    THEN [d |-> dd,
          ret |-> ErrorfChannels(
                    "Received %d delivery channels under %s (expected exactly 1): %s",
                    Len(channels), dd.id, channels)]
    ELSE [d |-> ReadChannel(dd, channels[1]), ret |-> NoRet]

\* the handling of the channels as it would be if the first of several
\* channels were taken
ReadChannels_FirstOfMany(dd, channels) ==
    IF Len(channels) < 1
    THEN [d |-> [dd EXCEPT !.id = ""], ret |-> NoRet]
    ELSE [d |-> ReadChannel(dd, channels[1]), ret |-> NoRet]

\* lines 146-169: a describe answer without error
ReadChannels(dd, channels) ==
    IF Len(channels) < 1
    THEN [d |-> [dd EXCEPT !.id = ""], ret |-> NoRet]
    ELSE IF Len(channels) > 1
    THEN [d |-> dd,
          ret |-> ErrorfChannels(
                    "Received %d delivery channels under %s (expected exactly 1): %s",
                    Len(channels), dd.id, channels)]
    ELSE [d |-> ReadChannel(dd, channels[1]), ret |-> NoRet]

\* lines 134-169: what Read does with the describe call's answer
ReadResult(dd, resp) ==
    IF resp.err # NoError
    THEN ReadError(dd, resp.err)
    ELSE ReadChannels(dd, resp.channels)

(***************************************************************************)
(* resource.Retry                                                          *)
(***************************************************************************)
\* Retry as it would be without a timeout
RetryAgain_Forever(e, dt, timeout) == TRUE

\* whether Retry, after a retryable error at time e and a wait of dt,
\* runs the function again; otherwise its timeout has elapsed
RetryAgain(e, dt, timeout) == e + dt < timeout

\* the RetryFunc of Put as it would be if no error were retried
PutRetryFunc_GivesUp(e) ==
    IF e = NoError THEN "success" ELSE "nonretryable"

\* the RetryFunc of Put as it would be if every error were retried
PutRetryFunc_RetriesAll(e) ==
    IF e = NoError THEN "success" ELSE "retryable"

\* the RetryFunc of Delete as it would be if the message were not looked at
DeleteRetryFunc_AnyMessage(e) ==
    IF e # NoError
    THEN IF isAWSErr(e, ErrCodeLastDeliveryChannelDeleteFailedException, <<>>)
         THEN "retryable"
         ELSE "nonretryable"
    ELSE "success"

\* lines 105-114: the RetryFunc of Put
PutRetryFunc(e) ==
    IF e = NoError THEN "success"
    ELSE IF isAWSErr(e, ErrCodeInsufficientDeliveryPolicy, <<>>) THEN "retryable"
    ELSE "nonretryable"

\* lines 179-187: the RetryFunc of Delete
DeleteRetryFunc(e) ==
    IF e # NoError
    THEN IF isAWSErr(e, ErrCodeLastDeliveryChannelDeleteFailedException,
                     RecorderRunningMsg)
         THEN "retryable"
         ELSE "nonretryable"
    ELSE "success"

\* the timeout check as it would be if no timeout were recognised
PutFinalNeeded_Never(e) == FALSE

DeleteFinalNeeded_Never(e) == FALSE

\* line 116: Put makes its final attempt
PutFinalNeeded(e) == isResourceTimeoutError(e)

\* line 189: Delete makes its final attempt
DeleteFinalNeeded(e) == isResourceTimeoutError(e)

\* SetId as it would be if the id were left as it was
SetId_NotSet(dd, name) == dd

\* line 123: d.SetId(name)
SetId(dd, name) == [dd EXCEPT !.id = name]

\* what Retry returns once it stops: nil, the error that is not retryable,
\* or a timeout error after retryable errors
RetryReturn(r, e) == IF r = "retryable" THEN TimeoutError ELSE e

\* line 125: Put returns what Read returned
PutReturn(readResult) == readResult

(***************************************************************************)
(* State                                                                   *)
(*                                                                         *)
(* d is the resource data (d0: as the running handler received it), input  *)
(* the request the handler built, pc the handler's position, err its err   *)
(* variable, ret what the last handler returned, readRet what the last     *)
(* Read returned, elapsed the time the running resource.Retry has waited   *)
(* (kept after a timeout, 0 after any other return).  The rest is a record *)
(* of the remote calls of the running handler: their numbers, the last     *)
(* answers, the names of the last describe call, whether a put succeeded,  *)
(* and how many puts (deletes) were answered with the error the handler    *)
(* waits for.  remote is what the service keeps and faithful whether its   *)
(* answers follow from that; lifecycle records, against such a service,    *)
(* that the handlers before the running one were a Put without error       *)
(* ("upserted"), or such a Put and then a Delete without error ("deleted").*)
(***************************************************************************)
\* 1 if a put was answered with InsufficientDeliveryPolicyException
InsufficientAnswer(e) ==
    IF e.kind = "aws" /\ e.code = ErrCodeInsufficientDeliveryPolicy THEN 1 ELSE 0

\* 1 if a delete was answered with LastDeliveryChannelDeleteFailedException
\* because of a running configuration recorder
BlockedAnswer(e) ==
    IF /\ e.kind = "aws"
       /\ e.code = ErrCodeLastDeliveryChannelDeleteFailedException
       /\ Contains(e.msg, RecorderRunningMsg)
    THEN 1 ELSE 0

Init ==
    /\ d \in ResourceData
    /\ d0 = d
    /\ input = NoInput
    /\ pc = "idle"
    /\ op = "none"
    /\ err = NoError
    /\ ret = NoRet
    /\ readRet = NoRet
    /\ elapsed = 0
    /\ lastWrite = NoError
    /\ lastDescribe = NoDescribe
    /\ describeNames = <<>>
    /\ putCalls = 0
    /\ putInsufficient = 0
    /\ putOk = FALSE
    /\ finalAttempts = 0
    /\ describeCalls = 0
    /\ deleteCalls = 0
    /\ deleteBlocked = 0
    /\ remote = EmptyStore
    /\ faithful = FALSE
    /\ lifecycle = "none"
    /\ interleaved = FALSE

\* the same, against the remote service that keeps what it is sent
InitStore ==
    /\ d \in ResourceData
    /\ d0 = d
    /\ input = NoInput
    /\ pc = "idle"
    /\ op = "none"
    /\ err = NoError
    /\ ret = NoRet
    /\ readRet = NoRet
    /\ elapsed = 0
    /\ lastWrite = NoError
    /\ lastDescribe = NoDescribe
    /\ describeNames = <<>>
    /\ putCalls = 0
    /\ putInsufficient = 0
    /\ putOk = FALSE
    /\ finalAttempts = 0
    /\ describeCalls = 0
    /\ deleteCalls = 0
    /\ deleteBlocked = 0
    /\ remote \in InitialStores
    /\ faithful = TRUE
    /\ lifecycle = "none"
    /\ interleaved = FALSE

\* the answers of the remote service to the three calls
PutAnswers == IF faithful THEN StorePutAnswers ELSE WriteResponses

DeleteAnswers ==
    IF faithful
    THEN StoreDeleteAnswers(remote, input.DeliveryChannelName)
    ELSE WriteResponses

DescribeAnswers ==
    IF faithful
    THEN StoreDescribeAnswers(remote, DescribeInput(d))
    ELSE DescribeResponses

\* a handler is entered: the bookkeeping of the previous call is forgotten
Enter(o, in, p) ==
    /\ op' = o
    /\ input' = in
    /\ pc' = p
    /\ d0' = d
    /\ d' = d
    /\ err' = NoError
    /\ ret' = NoRet
    /\ readRet' = NoRet
    /\ elapsed' = 0
    /\ lastWrite' = NoError
    /\ lastDescribe' = NoDescribe
    /\ describeNames' = <<>>
    /\ putCalls' = 0
    /\ putInsufficient' = 0
    /\ putOk' = FALSE
    /\ finalAttempts' = 0
    /\ describeCalls' = 0
    /\ deleteCalls' = 0
    /\ deleteBlocked' = 0
    /\ lifecycle' = IF ~faithful THEN lifecycle
                    ELSE IF op = "Put" /\ putOk /\ ret = NoRet THEN "upserted"
                    ELSE IF op = "Delete" /\ ret = NoRet
                            /\ lifecycle = "upserted" THEN "deleted"
                    ELSE "none"
    /\ interleaved' = FALSE
    /\ UNCHANGED <<remote, faithful>>

(***************************************************************************)
(* resourceAwsConfigDeliveryChannelPut                                     *)
(***************************************************************************)
\* lines 72-102
PutStart ==
    /\ pc = "idle"
    /\ Enter("Put", PutInput(d), "put_retry")

\* lines 119-125, up to the call of Read
PutAfterWrite(e) ==
    IF e # NoError
    THEN /\ d' = d
         /\ ret' = ErrorfCause("Creating Delivery Channel failed: %s", e)
         /\ pc' = "idle"
    ELSE /\ d' = SetId(d, input.DeliveryChannel[1].Name)
         /\ ret' = ret
         /\ pc' = "read"

\* lines 104-118: one PutDeliveryChannel call inside resource.Retry
PutRetry ==
    /\ pc = "put_retry"
    /\ \E resp \in PutAnswers, dt \in Backoffs :
         LET r == PutRetryFunc(resp)
             result == RetryReturn(r, resp)
         IN /\ putCalls' = putCalls + 1
            /\ remote' = IF faithful THEN StoreAfterPut(remote, input, resp)
                                      ELSE remote
            /\ putInsufficient' = putInsufficient + InsufficientAnswer(resp)
            /\ putOk' = (putOk \/ resp = NoError)
            /\ lastWrite' = resp
            /\ elapsed' = IF r = "retryable" THEN elapsed + dt ELSE 0
            /\ IF r = "retryable" /\ RetryAgain(elapsed, dt, PropagationTimeout)
               THEN UNCHANGED <<pc, err, d, ret>>
               ELSE /\ err' = result
                    /\ IF PutFinalNeeded(result)
                       THEN pc' = "put_final" /\ UNCHANGED <<d, ret>>
                       ELSE PutAfterWrite(result)
    /\ UNCHANGED <<d0, input, op, lastDescribe, describeNames, finalAttempts,
                   describeCalls, deleteCalls, deleteBlocked, readRet,
                   faithful, lifecycle, interleaved>>

\* line 117: the PutDeliveryChannel call after the timeout
PutFinal ==
    /\ pc = "put_final"
    /\ \E resp \in PutAnswers :
         /\ putCalls' = putCalls + 1
         /\ remote' = IF faithful THEN StoreAfterPut(remote, input, resp)
                                   ELSE remote
         /\ finalAttempts' = finalAttempts + 1
         /\ putOk' = (putOk \/ resp = NoError)
         /\ lastWrite' = resp
         /\ err' = resp
         /\ putInsufficient' = putInsufficient + InsufficientAnswer(resp)
         /\ PutAfterWrite(resp)
    /\ UNCHANGED <<d0, input, op, elapsed, lastDescribe, describeNames,
                   describeCalls, deleteCalls, deleteBlocked, readRet,
                   faithful, lifecycle, interleaved>>

(***************************************************************************)
(* resourceAwsConfigDeliveryChannelRead                                    *)
(***************************************************************************)
\* line 128
ReadStart ==
    /\ pc = "idle"
    /\ Enter("Read", NoInput, "read")

\* lines 131-169: the DescribeDeliveryChannels call and what follows it
Read ==
    /\ pc = "read"
    /\ \E resp \in DescribeAnswers :
         LET r == ReadResult(d, resp)
         IN /\ describeCalls' = describeCalls + 1
            /\ describeNames' = DescribeInput(d)
            /\ lastDescribe' = resp
            /\ d' = r.d
            /\ readRet' = r.ret
            /\ ret' = IF op = "Put" THEN PutReturn(r.ret) ELSE r.ret
            /\ pc' = "idle"
    /\ UNCHANGED <<d0, input, op, err, elapsed, lastWrite, putCalls,
                   putInsufficient, putOk, finalAttempts, deleteCalls,
                   deleteBlocked, remote, faithful, lifecycle, interleaved>>

(***************************************************************************)
(* resourceAwsConfigDeliveryChannelDelete                                  *)
(***************************************************************************)
\* lines 172-176
DeleteStart ==
    /\ pc = "idle"
    /\ Enter("Delete", DeleteInput(d), "delete_retry")

\* the end of Delete as it would be if the delete error were dropped
DeleteAfterWrite_Swallows(e) ==
    /\ ret' = NoRet
    /\ pc' = "idle"

\* lines 192-196
DeleteAfterWrite(e) ==
    /\ ret' = IF e # NoError
              THEN ErrorfCause("Unable to delete delivery channel: %s", e)
              ELSE NoRet
    /\ pc' = "idle"

\* lines 178-190: one DeleteDeliveryChannel call inside resource.Retry
DeleteRetry ==
    /\ pc = "delete_retry"
    /\ \E resp \in DeleteAnswers, dt \in Backoffs :
         LET r == DeleteRetryFunc(resp)
             result == RetryReturn(r, resp)
         IN /\ deleteCalls' = deleteCalls + 1
            /\ remote' = IF faithful THEN StoreAfterDelete(remote, input, resp)
                                      ELSE remote
            /\ deleteBlocked' = deleteBlocked + BlockedAnswer(resp)
            /\ lastWrite' = resp
            /\ elapsed' = IF r = "retryable" THEN elapsed + dt ELSE 0
            /\ IF r = "retryable" /\ RetryAgain(elapsed, dt, DeleteTimeout)
               THEN UNCHANGED <<pc, err, ret>>
               ELSE /\ err' = result
                    /\ IF DeleteFinalNeeded(result)
                       THEN pc' = "delete_final" /\ UNCHANGED ret
                       ELSE DeleteAfterWrite(result)
    /\ UNCHANGED <<d, d0, input, op, lastDescribe, describeNames, putCalls,
                   putInsufficient, putOk, finalAttempts, describeCalls,
                   readRet, faithful, lifecycle, interleaved>>

\* line 190: the DeleteDeliveryChannel call after the timeout
DeleteFinal ==
    /\ pc = "delete_final"
    /\ \E resp \in DeleteAnswers :
         /\ deleteCalls' = deleteCalls + 1
         /\ remote' = IF faithful THEN StoreAfterDelete(remote, input, resp)
                                   ELSE remote
         /\ finalAttempts' = finalAttempts + 1
         /\ lastWrite' = resp
         /\ err' = resp
         /\ deleteBlocked' = deleteBlocked + BlockedAnswer(resp)
         /\ DeleteAfterWrite(resp)
    /\ UNCHANGED <<d, d0, input, op, elapsed, lastDescribe, describeNames,
                   putCalls, putInsufficient, putOk, describeCalls, readRet,
                   faithful, lifecycle, interleaved>>

Next ==
    \/ PutStart
    \/ PutRetry
    \/ PutFinal
    \/ ReadStart
    \/ Read
    \/ DeleteStart
    \/ DeleteRetry
    \/ DeleteFinal

Spec == Init /\ [][Next]_vars

\* a step of a handler that has been called and has not returned
Running == PutRetry \/ PutFinal \/ Read \/ DeleteRetry \/ DeleteFinal

\* every remote call returns and the handler goes on with its next statement
Fairness == WF_vars(Running)

SpecFair == Init /\ [][Next]_vars /\ Fairness

\* the handlers against the remote service that keeps what it is sent
SpecStore == InitStore /\ [][Next]_vars

(***************************************************************************)
(* A second call of the provider, for another name, running at the same    *)
(* time.  The handlers share only the service client, so the second call   *)
(* is seen by the first through the remote service alone: it is modelled   *)
(* by the put or delete request it sends, built as the handlers build it.  *)
(***************************************************************************)
\* the name the running handler acts on: Put writes d.Get("name"), Read and
\* Delete address d.Id()
Identity == IF op = "Put" THEN d0.name ELSE d0.id

\* the resource data of the second call (required attributes only)
OtherData ==
    { r \in ResourceData :
        /\ r.id = r.name
        /\ r.s3_key_prefix = "" /\ r.s3_kms_key_arn = "" /\ r.sns_topic_arn = ""
        /\ r.snapshot_delivery_properties = <<>> }

\* lines 72-121 run by the second call: its PutDeliveryChannel succeeds
OtherPut ==
    /\ pc # "idle"
    /\ \E dd \in OtherData :
         /\ dd.name # Identity
         /\ remote' = StoreAfterPut(remote, PutInput(dd), NoError)
    /\ interleaved' = TRUE
    /\ UNCHANGED <<d, d0, input, pc, op, err, ret, elapsed, lastWrite,
                   lastDescribe, describeNames, putCalls, putInsufficient,
                   putOk, finalAttempts, describeCalls, deleteCalls,
                   deleteBlocked, readRet, faithful, lifecycle>>

\* lines 172-191 run by the second call: its DeleteDeliveryChannel succeeds
OtherDelete ==
    /\ pc # "idle"
    /\ \E dd \in OtherData :
         /\ dd.id # Identity
         /\ Kept(remote, dd.id) # <<>>
         /\ remote' = StoreAfterDelete(remote, DeleteInput(dd), NoError)
    /\ interleaved' = TRUE
    /\ UNCHANGED <<d, d0, input, pc, op, err, ret, elapsed, lastWrite,
                   lastDescribe, describeNames, putCalls, putInsufficient,
                   putOk, finalAttempts, describeCalls, deleteCalls,
                   deleteBlocked, readRet, faithful, lifecycle>>

NextConc == Next \/ OtherPut \/ OtherDelete

SpecConc == InitStore /\ [][NextConc]_vars

(***************************************************************************)
(* Properties                                                              *)
(***************************************************************************)
\* the resource data as the Read of the running handler found it
BeforeRead == IF op = "Put" THEN [d0 EXCEPT !.id = d0.name] ELSE d0

\* C1: in Put, the describe call is made only after a put call of this Put
\* has succeeded and the id has been set to the name of the configuration;
\* once a put has succeeded, Put calls Read exactly once and returns what
\* Read returned.
C1_ReadBackAfterPut ==
    op = "Put" =>
      /\ (pc = "read" \/ describeCalls > 0) => putOk
      /\ pc = "read" => d.id = d0.name /\ describeCalls = 0
      /\ describeCalls > 0 => describeNames = <<d0.name>>
      /\ putOk => pc \in {"read", "idle"}
      /\ (putOk /\ pc = "idle") => describeCalls = 1 /\ ret = readRet

\* a Put whose id was not the name beforehand, whose put succeeded and whose
\* Read returned an error
C1_Witness ==
    /\ op = "Put" /\ pc = "idle" /\ putOk /\ describeCalls = 1
    /\ d0.id # d0.name
    /\ ret # NoRet

\* C2: when the retry phase of Put ends by timeout, exactly one more put call
\* is made and Put acts on its answer: success sets the id and leads to the
\* read-back, an error (also the retryable one) is returned wrapped, never a
\* timeout error.  When the retry phase ends with success or an error that is
\* not retried, no further put call is made.
C2_FinalAttemptAfterTimeout ==
    op = "Put" =>
      /\ finalAttempts <= 1
      /\ pc = "put_final" =>
            /\ finalAttempts = 0
            /\ elapsed >= PropagationTimeout
            /\ InsufficientAnswer(lastWrite) = 1
      /\ (elapsed >= PropagationTimeout /\ pc # "put_final") => finalAttempts = 1
      /\ finalAttempts = 1 =>
            /\ elapsed >= PropagationTimeout
            /\ err = lastWrite
            /\ lastWrite = NoError =>
                  /\ pc \in {"read", "idle"}
                  /\ pc = "read" => d.id = d0.name
                  /\ describeCalls = 0 => pc = "read"
            /\ lastWrite # NoError =>
                  /\ pc = "idle"
                  /\ describeCalls = 0
                  /\ ret = ErrorfCause("Creating Delivery Channel failed: %s",
                                       lastWrite)
                  /\ ret.cause # TimeoutError
      /\ (finalAttempts = 0 /\ pc \in {"read", "idle"}) =>
            /\ elapsed < PropagationTimeout
            /\ InsufficientAnswer(lastWrite) = 0
            /\ putCalls = putInsufficient + 1

\* a Put whose retry phase timed out and whose one further put was answered
\* with the retryable error again
C2_Witness ==
    /\ op = "Put" /\ pc = "idle" /\ finalAttempts = 1
    /\ InsufficientAnswer(lastWrite) = 1
    /\ putCalls = putInsufficient

\* C3: when every delete call is answered with the error Delete waits for,
\* the retry phase lasts until its timeout of 30 seconds, exactly one more
\* delete call follows, and Delete returns the error of that call.
C3_DeleteExhaustion ==
    (op = "Delete" /\ deleteBlocked = deleteCalls) =>
      /\ pc = "delete_retry" => elapsed < DeleteTimeout /\ finalAttempts = 0
      /\ pc = "delete_final" => elapsed >= DeleteTimeout /\ finalAttempts = 0
      /\ pc = "idle" =>
            /\ elapsed >= DeleteTimeout
            /\ finalAttempts = 1
            /\ deleteCalls >= 2
            /\ ret = ErrorfCause("Unable to delete delivery channel: %s",
                                 lastWrite)
            /\ BlockedAnswer(ret.cause) = 1

\* a Delete that returned after three calls, all answered with that error
C3_Witness ==
    /\ op = "Delete" /\ pc = "idle"
    /\ deleteCalls = 3 /\ deleteBlocked = 3

\* C4: a put answered with InsufficientDeliveryPolicyException while the
\* timeout has not elapsed is always followed by another put of the retry
\* phase; so when the first N puts are answered with it and put N+1 succeeds
\* within the timeout, Put has made exactly N+1 put calls, none of them after
\* a timeout, and goes on to the read-back.
C4_RetryThenSucceed ==
    op = "Put" =>
      /\ pc = "put_retry" =>
            /\ elapsed < PropagationTimeout
            /\ putCalls = putInsufficient
            /\ ~putOk
      /\ pc = "put_final" =>
            /\ elapsed >= PropagationTimeout
            /\ putCalls = putInsufficient
      /\ (putOk /\ finalAttempts = 0) =>
            /\ putCalls = putInsufficient + 1
            /\ lastWrite = NoError
            /\ err = NoError
            /\ pc \in {"read", "idle"}
            /\ describeCalls = 0 => pc = "read" /\ ret = NoRet
      /\ (pc = "idle" /\ ~putOk /\ finalAttempts = 0) =>
            InsufficientAnswer(lastWrite) = 0

\* a Put about to read back after three puts answered with the error and a
\* fourth that succeeded inside the retry phase
C4_Witness ==
    /\ op = "Put" /\ pc = "read"
    /\ putInsufficient = 3 /\ putCalls = 4 /\ finalAttempts = 0

\* C5: in Put, a put call of the retry phase answered with an error other
\* than InsufficientDeliveryPolicyException ends Put at once: no further put
\* call, no describe call, the id and the attributes as they were, and the
\* error returned wraps the remote error.
C5_TerminalPutError ==
    (op = "Put" /\ finalAttempts = 0 /\ lastWrite # NoError
               /\ InsufficientAnswer(lastWrite) = 0) =>
      /\ pc = "idle"
      /\ putCalls = putInsufficient + 1
      /\ describeCalls = 0
      /\ d = d0
      /\ ret = ErrorfCause("Creating Delivery Channel failed: %s", lastWrite)

\* a Put ended by an error that is no awserr.Error, after two retried puts
C5_Witness ==
    /\ op = "Put" /\ pc = "idle" /\ finalAttempts = 0
    /\ lastWrite = PlainError
    /\ putCalls = 3

\* C6: Delete retries only after LastDeliveryChannelDeleteFailedException
\* with the running-recorder message; any other error, that code with
\* another message included, ends Delete with that call, wrapped.
C6_DeleteRetryCondition ==
    op = "Delete" =>
      /\ pc \in {"delete_retry", "delete_final"} => deleteCalls = deleteBlocked
      /\ (lastWrite # NoError /\ BlockedAnswer(lastWrite) = 0) =>
            /\ pc = "idle"
            /\ deleteCalls = deleteBlocked + 1
            /\ ret = ErrorfCause("Unable to delete delivery channel: %s",
                                 lastWrite)

\* a Delete ended by its first call, answered with the code but not the
\* message
C6_Witness ==
    /\ op = "Delete" /\ pc = "idle" /\ deleteCalls = 1
    /\ lastWrite.code = ErrCodeLastDeliveryChannelDeleteFailedException
    /\ lastWrite.msg = <<"failed">>
    /\ ret # NoRet

\* the describe call of the running handler has been answered and Read has
\* returned
ReadDone == pc = "idle" /\ describeCalls = 1

\* the answer reported absence: the not-found error, or no channel
AnsweredAbsent ==
    \/ /\ lastDescribe.err.kind = "aws"
       /\ lastDescribe.err.code = ErrCodeNoSuchDeliveryChannel
    \/ /\ lastDescribe.err = NoError
       /\ lastDescribe.channels = <<>>

\* C7: when describe answers with NoSuchDeliveryChannelException or with no
\* channel, Read returns no error and clears the id, and leaves every other
\* attribute as it was.
C7_ReadAbsent ==
    (ReadDone /\ AnsweredAbsent) =>
      /\ readRet = NoRet
      /\ ret = NoRet
      /\ d.id = ""
      /\ d = [BeforeRead EXCEPT !.id = ""]

\* a Read of a stored id answered with an empty list of channels
C7_Witness ==
    /\ op = "Read" /\ ReadDone
    /\ lastDescribe = [err |-> NoError, channels |-> <<>>]
    /\ d0.id # "" /\ d.id = ""

\* C8: when describe answers with more than one channel, Read returns an
\* error that carries the number of channels and the id asked for; the id is
\* not cleared and no attribute is taken from the channels returned.
C8_ReadMultiple ==
    (ReadDone /\ lastDescribe.err = NoError /\ Len(lastDescribe.channels) > 1) =>
      /\ readRet # NoRet
      /\ readRet.count = Len(lastDescribe.channels)
      /\ readRet.id = BeforeRead.id
      /\ readRet.id = describeNames[1]
      /\ ret = readRet
      /\ d = BeforeRead

\* a Read answered with two channels, the first of which differs from the
\* attributes held
C8_Witness ==
    /\ op = "Read" /\ ReadDone
    /\ Len(lastDescribe.channels) = 2
    /\ lastDescribe.channels[1].Name # d0.name
    /\ d0.id # ""
    /\ readRet.count = 2

\* C9: every Read makes exactly one describe call, for exactly the id held
\* when it is made, and never a second one; a describe error other than
\* not-found makes Read return an error, wrapping it, with the id as it was.
C9_ReadSingleDescribe ==
    /\ describeCalls <= 1
    /\ (op = "Read" /\ pc = "idle") => describeCalls = 1
    /\ describeCalls = 1 =>
          /\ pc = "idle"
          /\ describeNames = <<BeforeRead.id>>
    /\ (ReadDone /\ lastDescribe.err # NoError /\ ~AnsweredAbsent) =>
          /\ readRet = ErrorfCause("Getting Delivery Channel failed: %s",
                                   lastDescribe.err)
          /\ ret = readRet
          /\ d = BeforeRead

\* a Read whose describe call was answered with the retryable error of Put
C9_Witness ==
    /\ op = "Read" /\ ReadDone
    /\ lastDescribe.err.code = ErrCodeInsufficientDeliveryPolicy
    /\ d.id # "" /\ ret # NoRet

\* C10: after a Read that returned no error from a describe answered with
\* exactly one channel, the snapshot_delivery_properties block is held if and
\* only if the channel has ConfigSnapshotDeliveryProperties, whatever was
\* held before.
C10_SnapshotBlockFollowsRemote ==
    (ReadDone /\ lastDescribe.err = NoError /\ Len(lastDescribe.channels) = 1
              /\ readRet = NoRet) =>
      (d.snapshot_delivery_properties # <<>>
         <=> lastDescribe.channels[1].ConfigSnapshotDeliveryProperties # <<>>)

\* C11: against the service that keeps what it is sent, a Put whose put
\* succeeded returns no error and leaves the attributes equal to the
\* configuration it was called with, field by field, the id being its name;
\* what the configuration lacks is lacking afterwards, the
\* snapshot_delivery_properties block included.
C11_RoundTrip ==
    (faithful /\ op = "Put" /\ pc = "idle" /\ putOk) =>
      /\ ret = NoRet
      /\ d.id = d0.name
      /\ d.name = d0.name
      /\ d.s3_bucket_name = d0.s3_bucket_name
      /\ d.s3_key_prefix = d0.s3_key_prefix
      /\ d.s3_kms_key_arn = d0.s3_kms_key_arn
      /\ d.sns_topic_arn = d0.sns_topic_arn
      /\ d.snapshot_delivery_properties = d0.snapshot_delivery_properties
      /\ lastDescribe.channels = input.DeliveryChannel

\* a Put of a configuration with a key prefix and without the block, over a
\* channel the service kept with a block and no prefix
C11_Witness ==
    /\ faithful /\ op = "Put" /\ pc = "idle" /\ putOk
    /\ d0.id = d0.name
    /\ d0.s3_bucket_name = "bk1"
    /\ d0.s3_key_prefix = "pre"
    /\ d0.snapshot_delivery_properties = <<>>
    /\ d.snapshot_delivery_properties = <<>>
    /\ lifecycle = "none"

\* C12: the channel Put sends holds an optional field (key prefix, KMS key,
\* SNS topic, snapshot delivery properties, delivery frequency) if and only
\* if the configuration holds it, and never an empty string in its place.
C12_WireOmitsAbsent ==
    op = "Put" =>
      LET c == input.DeliveryChannel[1]
          p == c.ConfigSnapshotDeliveryProperties
          b == d0.snapshot_delivery_properties
      IN /\ c.S3KeyPrefix # NilStr <=> d0.s3_key_prefix # ""
         /\ c.S3KmsKeyArn # NilStr <=> d0.s3_kms_key_arn # ""
         /\ c.SnsTopicARN # NilStr <=> d0.sns_topic_arn # ""
         /\ p # <<>> <=> b # <<>>
         /\ p # <<>> =>
              (p[1].DeliveryFrequency # NilStr <=> b[1].delivery_frequency # "")
         /\ "" \notin {c.S3KeyPrefix, c.S3KmsKeyArn, c.SnsTopicARN}
         /\ p # <<>> => p[1].DeliveryFrequency # ""

\* C13: against the service that keeps what it is sent and raises no error,
\* a Put that follows a Put without error, with the configuration that one
\* left, returns no error as well, leaves the id and the attributes as the
\* first Put left them, and the service keeps one channel under the name:
\* the one sent.
C13_IdempotentPut ==
    (faithful /\ lifecycle = "upserted" /\ op = "Put" /\ pc = "idle"
              /\ putInsufficient = 0) =>
      /\ ret = NoRet
      /\ d = d0
      /\ d.id = d0.name
      /\ Len(remote[d.name]) = 1
      /\ remote[d.name] = input.DeliveryChannel
      /\ input = PutInput(d)

\* the second of two Puts in succession, each with one put call
C13_Witness ==
    /\ faithful /\ lifecycle = "upserted" /\ op = "Put" /\ pc = "idle"
    /\ putCalls = 1 /\ describeCalls = 1
    /\ ret = NoRet

\* C14: against the service that keeps what it is sent, after a Put without
\* error and then a Delete without error, the Read that follows finds the
\* channel absent: it returns no error and clears the id.
C14_Lifecycle ==
    (faithful /\ lifecycle = "deleted" /\ op = "Read" /\ pc = "idle") =>
      /\ describeCalls = 1
      /\ describeNames = <<d0.id>>
      /\ d0.id = d0.name
      /\ remote[d0.name] = <<>>
      /\ ret = NoRet
      /\ d.id = ""

\* a Read after a Put and a Delete without error, answered with an empty
\* list
C14_Witness ==
    /\ faithful /\ lifecycle = "deleted" /\ op = "Read" /\ pc = "idle"
    /\ lastDescribe = [err |-> NoError, channels |-> <<>>]
    /\ d0.id = "default" /\ d.id = ""

\* C15: Delete reads nothing back: whatever its outcome it makes no describe
\* call and no put call, its delete calls name the id held, and it leaves the
\* id and the attributes as they were.
C15_DeleteFrame ==
    op = "Delete" =>
      /\ describeCalls = 0
      /\ putCalls = 0
      /\ ~putOk
      /\ pc \in {"delete_retry", "delete_final", "idle"}
      /\ input.DeliveryChannelName = d0.id
      /\ input.DeliveryChannel = <<>>
      /\ d = d0
      /\ readRet = NoRet

\* a Delete that has returned no error after two calls, for an id that is
\* not the name attribute
C15_Witness ==
    /\ op = "Delete" /\ pc = "idle" /\ ret = NoRet
    /\ deleteCalls = 2
    /\ d0.id # "" /\ d0.id # d0.name

\* C16: every Put and every Delete returns, whatever the service answers,
\* the retryable error for ever included: the retry phase lasts no longer
\* than its timeout, the timeout leads to the one final attempt, and after
\* that attempt the handler makes no further put or delete call.
C16_Bounded ==
    /\ pc = "put_retry" => elapsed < PropagationTimeout /\ finalAttempts = 0
    /\ pc = "delete_retry" => elapsed < DeleteTimeout /\ finalAttempts = 0
    /\ pc = "put_final" => elapsed >= PropagationTimeout /\ finalAttempts = 0
    /\ pc = "delete_final" => elapsed >= DeleteTimeout /\ finalAttempts = 0
    /\ finalAttempts <= 1
    /\ finalAttempts = 1 => pc \in {"read", "idle"}
    /\ (finalAttempts = 1 /\ op = "Delete") => pc = "idle"

C16_Termination ==
    /\ [](C16_Bounded)
    /\ (pc # "idle") ~> (pc = "idle")

\* a Delete that has returned after a timeout and a final attempt that was
\* answered with the retryable error too
C16_Witness ==
    /\ op = "Delete" /\ pc = "idle"
    /\ finalAttempts = 1
    /\ elapsed >= DeleteTimeout
    /\ BlockedAnswer(lastWrite) = 1
    /\ deleteCalls = 2

\* C17: a call for another name running at the same time does not interfere.
\* Every request of the running handler addresses its own name; the answers
\* it can get, and what its requests leave under its name, are those of the
\* service holding nothing under any other name; what it has observed and
\* written is as if it had run alone; and no step of the other call changes
\* the handler's state or what the service keeps under the handler's name.
C17_Alone == [n \in Names |-> IF n = Identity THEN remote[n] ELSE <<>>]

C17_AsAlone ==
    (faithful /\ op # "none") =>
      /\ pc \in {"put_retry", "put_final"} =>
           /\ input.DeliveryChannel[1].Name = Identity
           /\ \A r \in PutAnswers : \A n \in Names :
                StoreAfterPut(remote, input, r)[n] =
                  IF n = Identity THEN StoreAfterPut(C17_Alone, input, r)[n]
                                  ELSE remote[n]
      /\ pc \in {"delete_retry", "delete_final"} =>
           /\ input.DeliveryChannelName = Identity
           /\ DeleteAnswers = StoreDeleteAnswers(C17_Alone, Identity)
           /\ \A r \in DeleteAnswers : \A n \in Names :
                StoreAfterDelete(remote, input, r)[n] =
                  IF n = Identity THEN StoreAfterDelete(C17_Alone, input, r)[n]
                                  ELSE remote[n]
      /\ pc = "read" =>
           /\ DescribeInput(d) = <<Identity>>
           /\ DescribeAnswers = StoreDescribeAnswers(C17_Alone, <<Identity>>)
      /\ describeCalls = 1 =>
           /\ describeNames = <<Identity>>
           /\ lastDescribe \in StoreDescribeAnswers(C17_Alone, <<Identity>>)
      /\ (op = "Put" /\ putOk) => Kept(remote, Identity) = input.DeliveryChannel
      /\ (op = "Delete" /\ pc = "idle" /\ ret = NoRet) =>
           Kept(remote, Identity) = <<>>

C17_View == <<d, d0, input, pc, op, err, ret, readRet, lastWrite,
              lastDescribe, Kept(remote, Identity)>>

C17_NonInterference ==
    /\ [](C17_AsAlone)
    /\ [][(OtherPut \/ OtherDelete) => C17_View' = C17_View]_vars

\* a Put for "default" that has returned the channel it wrote while the
\* other call wrote its own channel under "other"
C17_Witness ==
    /\ op = "Put" /\ pc = "idle" /\ ret = NoRet
    /\ interleaved
    /\ Identity = "default" /\ d.id = "default"
    /\ \E dd \in OtherData :
         /\ dd.name = "other"
         /\ Kept(remote, "other") = PutInput(dd).DeliveryChannel
    /\ Kept(remote, "default") = input.DeliveryChannel

\* C18: every error a handler returns carries the failed operation and the
\* identity of the channel the handler was acting on: its format names the
\* operation, and the name is among the format's arguments.
C18_ErrorContext ==
    (pc = "idle" /\ ret # NoRet) =>
      /\ ret.fmt # ""
      /\ ret.id = Identity

\* C19: no remote error is swallowed except not-found on Read.  A handler
\* returns nil only if the last remote call it made succeeded or was a
\* describe call answered with NoSuchDeliveryChannelException; if the last
\* call returned any other error, the handler returns an error whose cause
\* is that error.
C19_LastError == IF describeCalls > 0 THEN lastDescribe.err ELSE lastWrite

C19_NotFoundOnRead ==
    /\ describeCalls > 0
    /\ C19_LastError.kind = "aws"
    /\ C19_LastError.code = ErrCodeNoSuchDeliveryChannel

C19_NoErrorSwallowed ==
    (pc = "idle" /\ op # "none") =>
      /\ ret = NoRet => (C19_LastError = NoError \/ C19_NotFoundOnRead)
      /\ (C19_LastError # NoError /\ ~C19_NotFoundOnRead) =>
           /\ ret # NoRet
           /\ ret.fmt # ""
           /\ ret.cause = C19_LastError

\* a Put whose put call succeeded and whose read-back failed with an
\* error of the service that is not the not-found one
C19_Witness ==
    /\ op = "Put" /\ pc = "idle"
    /\ putOk
    /\ describeCalls = 1
    /\ lastDescribe.err.kind = "aws"
    /\ lastDescribe.err.code # ErrCodeNoSuchDeliveryChannel
    /\ ret.cause = lastDescribe.err

\* C20: for a Put entered with an empty id, on return the id is the name
\* attribute exactly when a put call succeeded and the read-back did not
\* report absence.  When the read-back reports absence after a successful
\* put, Put returns nil with an empty id after that one describe call; when
\* the read-back fails (a describe error, or more than one channel), Put
\* returns Read's error and the id stays the name.
C20_ReadBackFailed ==
    \/ /\ lastDescribe.err # NoError
       /\ ~AnsweredAbsent
    \/ /\ lastDescribe.err = NoError
       /\ Len(lastDescribe.channels) > 1

C20_PutFromEmptyId ==
    (op = "Put" /\ pc = "idle" /\ d0.id = "") =>
      /\ describeCalls <= 1
      /\ putOk <=> describeCalls = 1
      /\ d.id = d0.name <=> (putOk /\ ~AnsweredAbsent)
      /\ d.id # d0.name => d.id = ""
      /\ (putOk /\ AnsweredAbsent) => ret = NoRet /\ d.id = ""
      /\ (putOk /\ C20_ReadBackFailed) =>
           /\ ret # NoRet
           /\ ret = readRet
           /\ d.id = d0.name

\* the put call succeeded after one retry, and the describe call that
\* followed found nothing under the name
C20_Witness ==
    /\ op = "Put" /\ pc = "idle"
    /\ d0.id = ""
    /\ putOk /\ putCalls = 2
    /\ describeCalls = 1
    /\ lastDescribe = [err |-> NoError, channels |-> <<>>]
    /\ ret = NoRet
    /\ d.id = ""

====
